---- MODULE Spec2Model ----
(***************************************************************************)
(* Reconciliation and cursor-advancement engine of the industrial process  *)
(* analytics system: the Cursor Store (database/state_manager.py), the     *)
(* Reconciliation Driver (processing/data_processor.py), the Equipment     *)
(* Sample Fetcher and Combined Record Writer                               *)
(* (processing/equipment_data_handler.py) over the query executor          *)
(* (database/query_executor.py).                                           *)
(*                                                                         *)
(* Timestamps.  A timestamp is the integer Sub * s + f: s whole seconds    *)
(* since midnight and f < Sub a fraction of a second (f # 0 is a timestamp *)
(* that carries microseconds).  Formatting with '%Y-%m-%d %H:%M:%S' and    *)
(* storing into a DATETIME column both drop f.  All timestamps lie in the  *)
(* current day.                                                            *)
(*                                                                         *)
(* Names.  The fetcher returns its rows under the key 'status_records'     *)
(* (equipment_data_handler.py:72) and the driver reads them under          *)
(* 'v24_records' (data_processor.py:206, 316); likewise the connection     *)
(* names 'scanner'/'analytics' and the column names of tb_combined_data    *)
(* differ between files.  The model takes each pair as the one field,      *)
(* connection or column it stands for.                                     *)
(***************************************************************************)
EXTENDS Integers, Sequences, FiniteSets, Bags, TLC

VARIABLES
    triggers,               \* tb_conveyor_requests: set of timestamps
    codes,                  \* tb_product_scanner: set of scanner timestamps
    samples,                \* tb_equipment_records: set of [ts, status]
    combined,               \* tb_combined_data: bag of rows (the id is never read)
    persisted,              \* tb_processing_state row id = 1, or None (no row)
    pc,                     \* "init", "idle", "cycle", "stopped", "aborted"
    last_processed_time,    \* StateManager.last_processed_time
    requests_without_code,  \* DataProcessor.requests_without_code
    batch,                  \* conveyor_requests of the cycle in flight
    idx,                    \* 1-based index of the next request of batch
    last,                   \* what the most recent handler did (its log)
    outcome,                \* history: how the latest processing of each trigger ended
    waited                  \* how the cycle before this moment ended: "sleep" or
                            \* "listen" (handle_cycle_timing ran), "skipped" (it did
                            \* not), "none" (a cycle is running or none has ended)

vars == <<triggers, codes, samples, combined, persisted, pc, last_processed_time,
          requests_without_code, batch, idx, last, outcome, waited>>

-----------------------------------------------------------------------------
(* Bounds of the model *)

Sub == 2
MaxTriggers == 2
MaxStatus == 127

(* Program constants *)

HorizonMinutes == 10
OverlapMinutes == 5
None == -1

\* stored cursor texts that are no timestamp: a text that parses under neither
\* '%Y-%m-%d %H:%M:%S' nor '%Y-%m-%d %H:%M:%S.%f', and the empty text; a text
\* that parses is the timestamp it parses to
MalformedText == -2
EmptyText == -3

\* a status_field for which int() raises ValueError: a text that is no number
NotANumber == -4

Seconds(s) == s * Sub
Minutes(m) == Seconds(60 * m)

\* a time of day
HMS(h, m, s) == Seconds(3600 * h + 60 * m + s)

TriggerTimes == {Minutes(1) + 1, Minutes(3), Minutes(8)}
CodeTimes == {Minutes(3), Minutes(10)}
SampleRows == {[ts |-> Minutes(2), status |-> 3], [ts |-> Minutes(8), status |-> 63]}

-----------------------------------------------------------------------------
(* Helpers *)

RECURSIVE SortAsc(_)
SortAsc(S) ==
    IF S = {} THEN <<>>
    ELSE LET m == CHOOSE x \in S : \A y \in S : x <= y
         IN <<m>> \o SortAsc(S \ {m})

RECURSIVE SortByTs(_)
SortByTs(S) ==
    IF S = {} THEN <<>>
    ELSE LET m == CHOOSE x \in S : \A y \in S : x.ts <= y.ts
         IN <<m>> \o SortByTs(S \ {m})

Range(s) == {s[i] : i \in 1..Len(s)}

MaxOf(S) == IF S = {} THEN None ELSE CHOOSE x \in S : \A y \in S : y <= x

\* strftime('%Y-%m-%d %H:%M:%S'): the fraction of a second is dropped
Strftime(t) == t - (t % Sub)

\* a DATETIME column keeps whole seconds
DatetimeColumn(t) == t - (t % Sub)

-----------------------------------------------------------------------------
(* Status Decoder: processing/process_decoder.py *)

STATUS_BITS == <<"start_phase_1", "start_phase_2", "start_phase_3",
                 "start_phase_4", "start_phase_5", "start_phase_6">>

\* status_int & (1 << (bit_position - 1))
BitActive(status_int, bit_position) ==
    (status_int \div (2 ^ (bit_position - 1))) % 2 = 1

\* variant: the loop runs from bit 1 upward and returns the lowest active bit
RECURSIVE LowestActiveBit(_, _)
LowestActiveBit(status_int, bit_position) ==
    IF bit_position = 7 THEN "no_status"
    ELSE IF BitActive(status_int, bit_position) THEN STATUS_BITS[bit_position]
    ELSE LowestActiveBit(status_int, bit_position + 1)

\* variant of decode_status_current built on LowestActiveBit
decode_status_lowest(status_value) ==
    IF status_value = None THEN "no_status"
    ELSE IF status_value = 0 THEN "no_status"
    ELSE IF status_value = NotANumber THEN "invalid_value"
    ELSE LowestActiveBit(status_value, 1)

\* "for bit_position in range(6, 0, -1)": the first active bit from 6 down
RECURSIVE HighestActiveBit(_, _)
HighestActiveBit(status_int, bit_position) ==
    IF bit_position = 0 THEN "no_status"
    ELSE IF BitActive(status_int, bit_position) THEN STATUS_BITS[bit_position]
    ELSE HighestActiveBit(status_int, bit_position - 1)

\* decode_status_current; int() is the identity on the integers of the model
\* and raises on NotANumber
decode_status_current(status_value) ==
    IF status_value = None THEN "no_status"
    ELSE IF status_value = 0 THEN "no_status"
    ELSE IF status_value = NotANumber THEN "invalid_value"
    ELSE HighestActiveBit(status_value, 6)

\* "for bit_position in range(1, 7)": the names of the active bits, ascending
RECURSIVE ActiveStates(_, _)
ActiveStates(status_int, bit_position) ==
    IF bit_position = 7 THEN <<>>
    ELSE (IF BitActive(status_int, bit_position) THEN <<STATUS_BITS[bit_position]>> ELSE <<>>)
            \o ActiveStates(status_int, bit_position + 1)

\* ' '.join(active_states)
RECURSIVE Join(_)
Join(active_states) ==
    IF Len(active_states) = 1 THEN Head(active_states)
    ELSE Head(active_states) \o " " \o Join(Tail(active_states))

\* variant of decode_status_complete: only the highest active bit is reported
decode_status_complete_highest(status_value) ==
    IF status_value = None THEN "no_states"
    ELSE IF status_value = 0 THEN "no_states"
    ELSE IF status_value = NotANumber THEN "invalid_value"
    ELSE IF ActiveStates(status_value, 1) = <<>> THEN "no_states"
    ELSE HighestActiveBit(status_value, 6)

\* decode_status_complete
decode_status_complete(status_value) ==
    IF status_value = None THEN "no_states"
    ELSE IF status_value = 0 THEN "no_states"
    ELSE IF status_value = NotANumber THEN "invalid_value"
    ELSE LET active_states == ActiveStates(status_value, 1)
         IN IF active_states = <<>> THEN "no_states" ELSE Join(active_states)

-----------------------------------------------------------------------------
(* Cursor Store: database/state_manager.py *)

\* get_last_processed_time: [raised, value].  A failed query returns None, as
\* an empty table and an empty text do ("if result and result[0]"); a text
\* that parses under neither format raises ValueError from the second strptime
GetLastProcessedTime(fail) ==
    IF fail THEN [raised |-> FALSE, value |-> None]
    ELSE IF persisted = None THEN [raised |-> FALSE, value |-> None]
    ELSE IF persisted = EmptyText THEN [raised |-> FALSE, value |-> None]
    ELSE IF persisted = MalformedText THEN [raised |-> TRUE, value |-> None]
    ELSE [raised |-> FALSE, value |-> persisted]

\* persist_last_processed_time: [ok, persisted] after the upsert
PersistLastProcessedTime(stored, last_time, fail) ==
    IF last_time = None THEN [ok |-> FALSE, persisted |-> stored]
    ELSE IF fail THEN [ok |-> FALSE, persisted |-> stored]
    ELSE [ok |-> TRUE, persisted |-> DatetimeColumn(Strftime(last_time))]

\* update_last_processed_time: memory changes only when the persist succeeded
UpdateLastProcessedTime(cur, stored, new_time, fail) ==
    LET p == PersistLastProcessedTime(stored, new_time, fail)
    IN IF p.ok THEN [ok |-> TRUE, mem |-> new_time, persisted |-> p.persisted]
       ELSE [ok |-> FALSE, mem |-> cur, persisted |-> stored]

\* SELECT MAX(timestamp_conveyor) FROM tb_combined_data
GetLastProcessedTimeFromConveyorData(fail) ==
    IF fail THEN None ELSE MaxOf({r.trig : r \in BagToSet(combined)})

\* SELECT MAX(code_timestamp) FROM tb_combined_data
GetLastProcessedTimeFromCodeData(fail) ==
    IF fail THEN None ELSE MaxOf({r.code : r \in BagToSet(combined)})

\* variant: the code-derived maximum is preferred to the trigger-derived one
InitializeFromExistingDataCodeFirst(cur, stored, f) ==
    LET last_conveyor_time == GetLastProcessedTimeFromConveyorData(f.conveyor2)
        last_code_time == GetLastProcessedTimeFromCodeData(f.code)
    IN IF last_code_time # None
       THEN [ret |-> last_code_time, mem |-> last_code_time,
             persisted |-> PersistLastProcessedTime(stored, last_code_time, f.persist).persisted]
       ELSE IF last_conveyor_time # None
       THEN [ret |-> last_conveyor_time, mem |-> last_conveyor_time,
             persisted |-> PersistLastProcessedTime(stored, last_conveyor_time, f.persist).persisted]
       ELSE [ret |-> None, mem |-> cur, persisted |-> stored]

\* initialize_from_existing_data: [ret, mem, persisted]; f names the failing
\* operations among its three queries and its persist
InitializeFromExistingData(cur, stored, f) ==
    LET first == GetLastProcessedTimeFromConveyorData(f.conveyor1)
        last_conveyor_time == GetLastProcessedTimeFromConveyorData(f.conveyor2)
        last_code_time == GetLastProcessedTimeFromCodeData(f.code)
    IN IF cur # None /\ first # None /\ cur > first
       THEN [ret |-> first, mem |-> first,
             persisted |-> PersistLastProcessedTime(stored, first, f.persist).persisted]
       ELSE IF last_conveyor_time # None
       THEN [ret |-> last_conveyor_time, mem |-> last_conveyor_time,
             persisted |-> PersistLastProcessedTime(stored, last_conveyor_time, f.persist).persisted]
       ELSE IF last_code_time # None
       THEN [ret |-> last_code_time, mem |-> last_code_time,
             persisted |-> PersistLastProcessedTime(stored, last_code_time, f.persist).persisted]
       ELSE [ret |-> None, mem |-> cur, persisted |-> stored]

-----------------------------------------------------------------------------
(* Equipment Sample Fetcher and Combined Record Writer:                    *)
(* processing/equipment_data_handler.py                                    *)

\* variant: the lower bound of the window is closed
GetEquipmentDataClosedStart(start_time, end_time, fail) ==
    IF fail THEN <<>>
    ELSE SortByTs({s \in samples : s.ts >= start_time /\ s.ts <= end_time})

\* get_equipment_data_by_time_range: rows with start < ts <= end, ascending;
\* a failed query gives None, which "or []" turns into no rows
GetEquipmentDataByTimeRange(start_time, end_time, fail) ==
    IF fail THEN <<>>
    ELSE SortByTs({s \in samples : s.ts > start_time /\ s.ts <= end_time})

\* the unique key uq_code_equipment of tb_combined_data
Key(r) == <<r.code, r.eq, r.trig>>

\* variant: a plain INSERT into a table without the unique key
InsertPlain(store, row) == store (+) SetToBag({row})

\* INSERT IGNORE of one row: a row whose key exists is skipped
InsertIgnore(store, row) ==
    IF \E r \in BagToSet(store) : Key(r) = Key(row) THEN store
    ELSE store (+) SetToBag({row})

\* variant: cursor.execute with the first parameter row only
ExecuteFirst(store, params) ==
    IF params = <<>> THEN store ELSE InsertIgnore(store, Head(params))

RECURSIVE ExecuteMany(_, _)
ExecuteMany(store, params) ==
    IF params = <<>> THEN store
    ELSE ExecuteMany(InsertIgnore(store, Head(params)), Tail(params))

\* the row of tb_product_scanner scanned at t, as _search_corresponding_code
\* selects it: scanner_timestamp, product_code, operator_id, work_order
ScannerRow(t) ==
    <<t, "product_" \o ToString(t), "operator_" \o ToString(t), "order_" \o ToString(t)>>

\* one parameter row of save_combined_data_centered_conveyor, as the columns
\* of the table keep it; code_data is the scanner_timestamp of the matched row
ParamsRow(conveyor_time, code_data, equipment_record) ==
    [code |-> DatetimeColumn(ScannerRow(code_data)[1]),
     eq |-> DatetimeColumn(equipment_record.ts),
     trig |-> DatetimeColumn(conveyor_time),
     status |-> equipment_record.status,
     process_status |-> decode_status_current(equipment_record.status),
     process_complete_status |-> decode_status_complete(equipment_record.status),
     product_code |-> ScannerRow(code_data)[2],
     operator_id |-> ScannerRow(code_data)[3],
     work_order |-> ScannerRow(code_data)[4]]

\* variant: a record whose status decodes to invalid_value is left out
BuildParamsDropInvalid(conveyor_time, code_data, status_records) ==
    LET valid == SelectSeq(status_records,
                           LAMBDA s : decode_status_current(s.status) # "invalid_value")
    IN [i \in 1..Len(valid) |-> ParamsRow(conveyor_time, code_data, valid[i])]

\* the parameter rows save_combined_data_centered_conveyor builds, one for
\* each record of status_records in their order
BuildParams(conveyor_time, code_data, status_records) ==
    [i \in 1..Len(status_records) |->
        ParamsRow(conveyor_time, code_data, status_records[i])]

\* save_combined_data_centered_conveyor: [success, store]
SaveCombinedDataCenteredConveyor(store, conveyor_time, code_data, status_records, fail) ==
    IF status_records = <<>> THEN [success |-> TRUE, store |-> store]
    ELSE IF fail THEN [success |-> FALSE, store |-> store]
    ELSE [success |-> TRUE,
          store |-> ExecuteMany(store, BuildParams(conveyor_time, code_data, status_records))]

-----------------------------------------------------------------------------
(* Reconciliation Driver: processing/data_processor.py *)

RECURSIVE SortDesc(_)
SortDesc(S) ==
    IF S = {} THEN <<>>
    ELSE LET m == CHOOSE x \in S : \A y \in S : x >= y
         IN <<m>> \o SortDesc(S \ {m})

\* variant: ORDER BY code_timestamp DESC
BuildConveyorQueryDesc(cur) ==
    IF cur = None THEN SortDesc(triggers)
    ELSE SortDesc({t \in triggers : t > cur - Minutes(OverlapMinutes)})

\* _build_conveyor_query and its execution: the rows fetched, ascending
BuildConveyorQuery(cur) ==
    IF cur = None THEN SortAsc(triggers)
    ELSE SortAsc({t \in triggers : t > cur - Minutes(OverlapMinutes)})

\* variant: the fetched rows are not filtered by the cursor
FilterRequestsNone(rows, last_dt) == rows

\* the filter of get_new_conveyor_requests
FilterRequests(rows, last_dt) ==
    IF last_dt # None THEN SelectSeq(rows, LAMBDA r : r >= last_dt) ELSE rows

\* get_new_conveyor_requests: a failed query gives no rows
GetNewConveyorRequests(cur, fail) ==
    FilterRequests(IF fail THEN <<>> ELSE BuildConveyorQuery(cur), cur)

\* Python's "marker in text" on two strings
Contains(text, marker) ==
    \E i \in 1..(Len(text) - Len(marker) + 1) :
        SubSeq(text, i, i + Len(marker) - 1) = marker

\* the test of one row in _verify_complete_cycle
RowComplete(status, complete_status) ==
    IF Contains(status, "complete_phase_2") THEN TRUE
    ELSE IF Contains(status, "process_complete") THEN TRUE
    ELSE IF complete_status = "" THEN FALSE
    ELSE IF Contains(complete_status, "complete_phase_2") THEN TRUE
    ELSE Contains(complete_status, "process_complete")

\* variant: a row is complete when its status names the last phase
RowCompleteLastPhase(status, complete_status) ==
    IF Contains(status, "start_phase_6") THEN TRUE
    ELSE Contains(complete_status, "start_phase_6")

\* _verify_complete_cycle: the rows of tb_combined_data stored for
\* conveyor_time with an equipment timestamp up to next_conveyor_time; a failed
\* query, None or an exception alike, gives False
VerifyCompleteCycle(conveyor_time, next_conveyor_time, fail) ==
    LET rows == {r \in BagToSet(combined) :
                    /\ r.trig = conveyor_time
                    /\ (next_conveyor_time # None => r.eq <= next_conveyor_time)}
    IN IF fail THEN FALSE
       ELSE \E r \in rows : RowComplete(r.process_status, r.process_complete_status)

\* variant: a previous cycle that is not complete ends the handler
StopsOnIncompleteAlways(verified) == ~verified

\* lines 172-177: an incomplete previous cycle is logged and the handler goes on
StopsOnIncomplete(verified) == FALSE

\* variant: the end of the window is always the horizon
CalculateEndTimeHorizon(all_requests, current_index, conveyor_time) ==
    conveyor_time + Minutes(HorizonMinutes)

\* _calculate_end_time
CalculateEndTime(all_requests, current_index, conveyor_time) ==
    IF current_index < Len(all_requests) THEN all_requests[current_index + 1]
    ELSE conveyor_time + Minutes(HorizonMinutes)

\* _get_next_conveyor_time
GetNextConveyorTime(all_requests, current_index) ==
    IF current_index < Len(all_requests) THEN all_requests[current_index + 1]
    ELSE None

\* search_end_time of _search_corresponding_code
SearchEndTime(conveyor_time, next_conveyor_time) ==
    IF next_conveyor_time # None THEN next_conveyor_time
    ELSE conveyor_time + Minutes(HorizonMinutes)

\* variant: the lower bound of the code window is closed
SearchCorrespondingCodeClosedStart(conveyor_time, next_conveyor_time, fail) ==
    LET search_end_time == IF next_conveyor_time # None THEN next_conveyor_time
                           ELSE conveyor_time + Minutes(HorizonMinutes)
        result == {c \in codes : c >= conveyor_time /\ c <= search_end_time}
    IN IF fail THEN None
       ELSE IF result = {} THEN None
       ELSE CHOOSE c \in result : \A d \in result : c <= d

\* _search_corresponding_code: the earliest code in (conveyor_time, end], or None
SearchCorrespondingCode(conveyor_time, next_conveyor_time, fail) ==
    LET search_end_time == SearchEndTime(conveyor_time, next_conveyor_time)
        result == {c \in codes : c > conveyor_time /\ c <= search_end_time}
    IN IF fail \/ result = {} THEN None
       ELSE CHOOSE c \in result : \A d \in result : c <= d

\* variant: a request without code is not skipped
SkipsRequestNever(code_data) == FALSE

\* "if not code_data: ... return" of _process_individual_conveyor_request
SkipsRequest(code_data) == code_data = None

\* variant: the warning is logged every time no code is found
WarnsNoCodeAlways(without_code, time_str) == TRUE

\* "if time_str not in self.requests_without_code": the two warnings of a
\* request without code are logged
WarnsNoCode(without_code, time_str) == time_str \notin without_code

\* variant: the state is updated whatever the writer reported
UpdatesStateAlways(has_records, saved) == TRUE

\* variant: the state is updated only after a saved, non-empty batch
UpdatesStateOnlySaved(has_records, saved) == has_records /\ saved

\* lines 205-216: the state is updated unless a non-empty batch was not saved
UpdatesState(has_records, saved) == ~has_records \/ saved

-----------------------------------------------------------------------------
(* Actions *)

\* REDIS_CONFIG["USE_REDIS_FLAG"], read once in ProcessingSystem.__init__: the
\* default of config/credentials.py
use_redis_flag == FALSE

\* handle_cycle_timing: blocks on the channel or sleeps max(5, 120 - duration)
HandleCycleTiming == IF use_redis_flag THEN "listen" ELSE "sleep"

\* execute_processing_cycle: handle_cycle_timing is the last statement of the
\* try block, so an exception of the cycle skips it
CycleEnd(raised) == IF raised THEN "skipped" ELSE HandleCycleTiming

\* the operations of one request that may fail; raises: the code query raises
\* instead of returning None (connect's ValueError, or close_connection in the
\* finally block of execute_query), which nothing below the cycle catches
Failures == [code : BOOLEAN, equipment : BOOLEAN, insert : BOOLEAN, persist : BOOLEAN,
             raises : BOOLEAN, verify : BOOLEAN]

InitFailures == [conveyor1 : BOOLEAN, conveyor2 : BOOLEAN, code : BOOLEAN, persist : BOOLEAN]

\* the log of a handler: op the handler, trig the request it handled, code the
\* matched code, fetched whether the equipment query was issued, records the
\* rows it returned, writer and update the reports of the Combined Record
\* Writer and of update_last_processed_time ("none" when not called), ignored
\* the rows the insert skipped, failed the operations that failed, raised
\* whether the handler ended by an exception, search_end and fetch_end the
\* window ends given to the code query and to the equipment query, cycle
\* what _verify_complete_cycle returned for the previous request ("none" when
\* it was not called), held the in-memory cursor when a startup step began,
\* params the rows the Combined Record Writer built for its insert, warned
\* whether the warnings of a request without code were logged
NoLog == [op |-> "none", trig |-> None, code |-> None, fetched |-> FALSE,
          records |-> <<>>, writer |-> "none", ignored |-> 0, update |-> "none",
          failed |-> {}, raised |-> FALSE, search_end |-> None, fetch_end |-> None,
          cycle |-> "none", held |-> None, params |-> <<>>, warned |-> FALSE]

Init ==
    /\ triggers = {}
    /\ codes = {}
    /\ samples = {}
    /\ combined = EmptyBag
    /\ persisted = None
    /\ pc = "init"
    /\ last_processed_time = None
    /\ requests_without_code = {}
    /\ batch = <<>>
    /\ idx = 0
    /\ last = NoLog
    /\ outcome = [t \in TriggerTimes |-> "none"]
    /\ waited = "none"

\* a row arrives in tb_conveyor_requests
AddTrigger(t) ==
    /\ t \notin triggers
    /\ Cardinality(triggers) < MaxTriggers
    /\ triggers' = triggers \cup {t}
    /\ UNCHANGED <<codes, samples, combined, persisted, pc, last_processed_time,
                   requests_without_code, batch, idx, last, outcome, waited>>

\* a row arrives in tb_product_scanner
AddCode(t) ==
    /\ t \notin codes
    /\ codes' = codes \cup {t}
    /\ UNCHANGED <<triggers, samples, combined, persisted, pc, last_processed_time,
                   requests_without_code, batch, idx, last, outcome, waited>>

\* a row arrives in tb_equipment_records
AddSample(s) ==
    /\ s \notin samples
    /\ samples' = samples \cup {s}
    /\ UNCHANGED <<triggers, codes, combined, persisted, pc, last_processed_time,
                   requests_without_code, batch, idx, last, outcome, waited>>

\* variant: the system is initialized from existing data at every startup
NeedsInitializationAlways(cur) == TRUE

\* "if self.state_mgr.last_processed_time is None"
NeedsInitialization(cur) == cur = None

\* ProcessingSystem.initialize_system_state
InitializeSystemState(f) ==
    /\ pc = "init"
    /\ LET initializes == NeedsInitialization(last_processed_time)
           r == IF initializes
                THEN InitializeFromExistingData(last_processed_time, persisted, f)
                ELSE [ret |-> None, mem |-> last_processed_time, persisted |-> persisted]
       IN /\ last_processed_time' = r.mem
          /\ persisted' = r.persisted
          /\ last' = [NoLog EXCEPT !.op = IF initializes THEN "reinit" ELSE "keep",
                                   !.trig = r.ret,
                                   !.failed = IF initializes
                                              THEN {k \in DOMAIN f : f[k]} ELSE {},
                                   !.held = last_processed_time]
    /\ pc' = "idle"
    /\ UNCHANGED <<triggers, codes, samples, combined, requests_without_code,
                   batch, idx, outcome, waited>>

\* ProcessingSystem.process_conveyor_requests: get_new_conveyor_requests and
\* the start of process_new_conveyor_requests; with nothing selected the cycle
\* ends here, through execute_analytics and handle_cycle_timing
ProcessConveyorRequests(fail) ==
    /\ pc = "idle"
    /\ LET filtered == GetNewConveyorRequests(last_processed_time, fail)
       IN /\ batch' = filtered
          /\ idx' = IF filtered = <<>> THEN 0 ELSE 1
          /\ pc' = IF filtered = <<>> THEN "idle" ELSE "cycle"
          /\ waited' = IF filtered = <<>> THEN CycleEnd(FALSE) ELSE "none"
          /\ last' = [NoLog EXCEPT !.op = "poll",
                                   !.failed = IF fail THEN {"conveyor"} ELSE {}]
    /\ UNCHANGED <<triggers, codes, samples, combined, persisted, last_processed_time,
                   requests_without_code, outcome>>

\* DataProcessor._process_individual_conveyor_request for batch[idx], and the
\* loop of process_new_conveyor_requests around it: an exception of the handler
\* leaves the loop, is raised again by process_conveyor_requests and ends the
\* cycle in execute_processing_cycle; f names the operations that fail, among
\* those the handler executes
ProcessIndividualConveyorRequest(f) ==
    /\ pc = "cycle"
    /\ LET conveyor_time == batch[idx]
           end_time == CalculateEndTime(batch, idx, conveyor_time)
           next_conveyor_time == GetNextConveyorTime(batch, idx)
           checks == idx > 1
           verified == IF checks
                       THEN VerifyCompleteCycle(batch[idx - 1], conveyor_time, f.verify)
                       ELSE TRUE
           stops == IF checks THEN StopsOnIncomplete(verified) ELSE FALSE
           raised == f.raises
           code_data == IF raised THEN None
                        ELSE SearchCorrespondingCode(conveyor_time, next_conveyor_time, f.code)
           time_str == Strftime(conveyor_time)
           skip == IF raised THEN TRUE
                   ELSE IF stops THEN TRUE
                   ELSE SkipsRequest(code_data)
           continues == ~raised /\ idx < Len(batch)
           equipment_data == GetEquipmentDataByTimeRange(conveyor_time, end_time, f.equipment)
           has_records == equipment_data # <<>>
           writes == ~skip /\ has_records
           save == SaveCombinedDataCenteredConveyor(combined, conveyor_time, code_data,
                                                    equipment_data, f.insert)
           updates == ~skip /\ UpdatesState(has_records, save.success)
           upd == UpdateLastProcessedTime(last_processed_time, persisted,
                                          conveyor_time, f.persist)
           queries == {"code"} \cup (IF checks THEN {"verify"} ELSE {})
                        \cup (IF skip THEN {} ELSE {"equipment"})
                        \cup (IF writes THEN {"insert"} ELSE {})
                        \cup (IF updates THEN {"persist"} ELSE {})
           injected == {q \in DOMAIN f : f[q]} \ {"raises"}
       IN /\ injected \subseteq (IF raised THEN {} ELSE queries)
          /\ requests_without_code' =
                IF raised THEN requests_without_code
                ELSE IF skip THEN requests_without_code \cup {time_str}
                ELSE requests_without_code \ {time_str}
          /\ combined' = IF writes THEN save.store ELSE combined
          /\ last_processed_time' = IF updates THEN upd.mem ELSE last_processed_time
          /\ persisted' = IF updates THEN upd.persisted ELSE persisted
          /\ last' = [op |-> "event",
                      trig |-> conveyor_time,
                      code |-> code_data,
                      fetched |-> ~skip,
                      records |-> IF skip THEN <<>> ELSE equipment_data,
                      writer |-> IF ~writes THEN "none"
                                 ELSE IF save.success THEN "ok" ELSE "failed",
                      ignored |-> IF writes /\ save.success
                                  THEN Len(equipment_data)
                                         - (BagCardinality(save.store) - BagCardinality(combined))
                                  ELSE 0,
                      update |-> IF ~updates THEN "none"
                                 ELSE IF upd.ok THEN "ok" ELSE "failed",
                      failed |-> IF raised THEN {} ELSE {q \in queries : f[q]},
                      raised |-> raised,
                      search_end |-> SearchEndTime(conveyor_time, next_conveyor_time),
                      fetch_end |-> IF skip THEN None ELSE end_time,
                      cycle |-> IF ~checks THEN "none"
                                ELSE IF verified THEN "complete" ELSE "incomplete",
                      held |-> None,
                      params |-> IF writes
                                 THEN BuildParams(conveyor_time, code_data, equipment_data)
                                 ELSE <<>>,
                      warned |-> IF raised THEN FALSE
                                 ELSE IF SkipsRequest(code_data)
                                 THEN WarnsNoCode(requests_without_code, time_str)
                                 ELSE FALSE]
          /\ outcome' = IF ~updates
                        THEN [outcome EXCEPT ![conveyor_time] = "unhandled"]
                        ELSE IF upd.ok THEN [outcome EXCEPT ![conveyor_time] = "updated"]
                        ELSE outcome
          /\ idx' = IF continues THEN idx + 1 ELSE 0
          /\ batch' = IF continues THEN batch ELSE <<>>
          /\ pc' = IF continues THEN "cycle" ELSE "idle"
          /\ waited' = IF continues THEN waited ELSE CycleEnd(raised)
    /\ UNCHANGED <<triggers, codes, samples>>

\* Runner.monitor (re)starts the process: memory is lost and
\* StateManager.__init__ reads the cursor again; an exception of that read
\* leaves ProcessingSystem.__init__ and main, and the process ends
Restart(fail) ==
    /\ LET r == GetLastProcessedTime(fail)
       IN /\ last_processed_time' = r.value
          /\ pc' = IF r.raised THEN "aborted" ELSE "init"
          /\ last' = [NoLog EXCEPT !.op = "start",
                                   !.failed = IF fail THEN {"state"} ELSE {},
                                   !.raised = r.raised]
    /\ requests_without_code' = {}
    /\ batch' = <<>>
    /\ idx' = 0
    /\ waited' = "none"
    /\ UNCHANGED <<triggers, codes, samples, combined, persisted, outcome>>

\* KeyboardInterrupt in the main thread: "except Exception" of
\* execute_processing_cycle and process_conveyor_requests does not catch it, so
\* it leaves the cycle wherever it is, run calls stop and returns, and the
\* process ends with its memory
KeyboardInterrupt ==
    /\ pc \in {"init", "idle", "cycle"}
    /\ pc' = "stopped"
    /\ last_processed_time' = None
    /\ requests_without_code' = {}
    /\ batch' = <<>>
    /\ idx' = 0
    /\ last' = [NoLog EXCEPT !.op = "stop"]
    /\ waited' = "none"
    /\ UNCHANGED <<triggers, codes, samples, combined, persisted, outcome>>

Next ==
    \/ \E t \in TriggerTimes : AddTrigger(t)
    \/ \E t \in CodeTimes : AddCode(t)
    \/ \E s \in SampleRows : AddSample(s)
    \/ \E f \in InitFailures : InitializeSystemState(f)
    \/ \E fail \in BOOLEAN : ProcessConveyorRequests(fail)
    \/ \E f \in Failures : ProcessIndividualConveyorRequest(f)
    \/ \E fail \in BOOLEAN : Restart(fail)
    \/ KeyboardInterrupt

Spec == Init /\ [][Next]_vars

-----------------------------------------------------------------------------
(* The driver over a fixed day of rows: one conveyor request at 09:00:00,  *)
(* one scan at 09:00:05 and three equipment records at 09:00:02, 09:00:06  *)
(* and 09:00:09 whose status fields are 1, 3 and any value up to MaxStatus  *)
(* or a text that is no number;                                             *)
(* no row arrives and no interrupt is sent                                  *)

ScenarioTriggers == {HMS(9, 0, 0)}
ScenarioCodes == {HMS(9, 0, 5)}
ScenarioSamples(status_value) ==
    {[ts |-> HMS(9, 0, 2), status |-> 1],
     [ts |-> HMS(9, 0, 6), status |-> 3],
     [ts |-> HMS(9, 0, 9), status |-> status_value]}

InitScenario ==
    /\ triggers = ScenarioTriggers
    /\ codes = ScenarioCodes
    /\ \E status_value \in (0..MaxStatus) \cup {NotANumber} :
          samples = ScenarioSamples(status_value)
    /\ combined = EmptyBag
    /\ persisted = None
    /\ pc = "init"
    /\ last_processed_time = None
    /\ requests_without_code = {}
    /\ batch = <<>>
    /\ idx = 0
    /\ last = NoLog
    /\ outcome = [t \in ScenarioTriggers |-> "none"]
    /\ waited = "none"

NextScenario ==
    \/ \E f \in InitFailures : InitializeSystemState(f)
    \/ \E fail \in BOOLEAN : ProcessConveyorRequests(fail)
    \/ \E f \in Failures : ProcessIndividualConveyorRequest(f)
    \/ \E fail \in BOOLEAN : Restart(fail)

SpecScenario == InitScenario /\ [][NextScenario]_vars

-----------------------------------------------------------------------------
(* Startup over the same rows with any stored cursor: no row, a timestamp  *)
(* in either format, an empty text or a text that is no timestamp          *)

StoredCursors == {None, HMS(9, 0, 0), HMS(9, 0, 0) + 1, EmptyText, MalformedText}

InitStartup ==
    /\ triggers = ScenarioTriggers
    /\ codes = ScenarioCodes
    /\ samples = ScenarioSamples(63)
    /\ combined = EmptyBag
    /\ persisted \in StoredCursors
    /\ pc = "stopped"
    /\ last_processed_time = None
    /\ requests_without_code = {}
    /\ batch = <<>>
    /\ idx = 0
    /\ last = NoLog
    /\ outcome = [t \in ScenarioTriggers |-> "none"]
    /\ waited = "none"

SpecStartup == InitStartup /\ [][NextScenario]_vars

-----------------------------------------------------------------------------
(* StateManager.initialize_from_existing_data called on any combined store *)
(* with any held and any stored cursor                                      *)

ReinitRows ==
    {BuildParams(HMS(9, 0, 0), HMS(9, 0, 5), <<[ts |-> HMS(9, 0, 6), status |-> 3]>>)[1],
     BuildParams(HMS(9, 5, 0), HMS(9, 5, 5), <<[ts |-> HMS(9, 5, 6), status |-> 63]>>)[1]}
ReinitCursors == {None, HMS(9, 0, 0), HMS(9, 5, 0), HMS(9, 10, 0) + 1}

InitReinit ==
    /\ triggers = ScenarioTriggers
    /\ codes = ScenarioCodes
    /\ samples = ScenarioSamples(63)
    /\ \E S \in SUBSET ReinitRows : combined = SetToBag(S)
    /\ persisted \in {IF c = None THEN None ELSE DatetimeColumn(c) : c \in ReinitCursors}
    /\ pc = "init"
    /\ last_processed_time \in ReinitCursors
    /\ requests_without_code = {}
    /\ batch = <<>>
    /\ idx = 0
    /\ last = NoLog
    /\ outcome = [t \in ScenarioTriggers |-> "none"]
    /\ waited = "none"

\* a call of initialize_from_existing_data
CallInitializeFromExistingData(f) ==
    /\ pc = "init"
    /\ LET r == InitializeFromExistingData(last_processed_time, persisted, f)
       IN /\ last_processed_time' = r.mem
          /\ persisted' = r.persisted
          /\ last' = [NoLog EXCEPT !.op = "reinit",
                                   !.trig = r.ret,
                                   !.failed = {k \in DOMAIN f : f[k]},
                                   !.held = last_processed_time]
    /\ pc' = "idle"
    /\ UNCHANGED <<triggers, codes, samples, combined, requests_without_code,
                   batch, idx, outcome, waited>>

NextReinit == \E f \in InitFailures : CallInitializeFromExistingData(f)

SpecReinit == InitReinit /\ [][NextReinit]_vars

-----------------------------------------------------------------------------
(* The driver polling for ever without a failing operation while equipment  *)
(* records arrive late: requests at 09:00:00 and 09:05:00, each with a scan *)
(* five seconds later, and equipment records that arrive at any moment      *)

LateTriggers == {HMS(9, 0, 0), HMS(9, 5, 0)}
LateCodes == {HMS(9, 0, 5), HMS(9, 5, 5)}
LateSampleRows ==
    {[ts |-> HMS(9, 0, 6), status |-> 1],
     [ts |-> HMS(9, 2, 0), status |-> 63],
     [ts |-> HMS(9, 5, 6), status |-> 1],
     [ts |-> HMS(9, 7, 0), status |-> 63]}

NoFailure == [code |-> FALSE, equipment |-> FALSE, insert |-> FALSE, persist |-> FALSE,
              raises |-> FALSE, verify |-> FALSE]
NoInitFailure == [conveyor1 |-> FALSE, conveyor2 |-> FALSE, code |-> FALSE, persist |-> FALSE]

InitLate ==
    /\ triggers = LateTriggers
    /\ codes = LateCodes
    /\ samples = {}
    /\ combined = EmptyBag
    /\ persisted = None
    /\ pc = "init"
    /\ last_processed_time = None
    /\ requests_without_code = {}
    /\ batch = <<>>
    /\ idx = 0
    /\ last = NoLog
    /\ outcome = [t \in LateTriggers |-> "none"]
    /\ waited = "none"

\* the steps of the process: startup, then the loop of run
DriverLate ==
    \/ InitializeSystemState(NoInitFailure)
    \/ ProcessConveyorRequests(FALSE)
    \/ ProcessIndividualConveyorRequest(NoFailure)

NextLate ==
    \/ \E s \in LateSampleRows : AddSample(s)
    \/ DriverLate

\* "while self.is_running" of run starts a cycle after every cycle, and a
\* cycle handles its requests one after the other: the driver's step is taken
\* whenever it stays possible
SpecLate == InitLate /\ [][NextLate]_vars /\ WF_vars(DriverLate)

-----------------------------------------------------------------------------
(* Steps of the driver, as actions *)

\* a step of _process_individual_conveyor_request
EventStep == pc = "cycle" /\ last'.op = "event" /\ idx' # idx

\* a step of get_new_conveyor_requests that selected at least one request
PollStep == pc = "idle" /\ pc' = "cycle"

\* a step of get_new_conveyor_requests, whatever it selected
QueryStep ==
    /\ pc = "idle" /\ last'.op = "poll"
    /\ triggers' = triggers /\ codes' = codes /\ samples' = samples

CursorUnchanged == last_processed_time' = last_processed_time /\ persisted' = persisted

-----------------------------------------------------------------------------
(* Properties *)

\* C1: when the Combined Record Writer reports failure for a request's
\* non-empty batch, the processing of that request ends without a call of the
\* Cursor Store update: the in-memory and the persisted cursor keep their values.
C1_WriterFailureSkipsCursor ==
    [][(EventStep /\ last'.writer = "failed" /\ last'.records # <<>>)
         => (last'.update = "none" /\ CursorUnchanged)]_vars

C1_Witness ==
    last.op = "event" /\ last.writer = "failed" /\ last.records # <<>>

\* C2: when no code is found in a request's window, the processing of that
\* request writes no combined record, issues no equipment query and leaves the
\* in-memory and the persisted cursor unchanged.
C2_NoCodeSkipsRequest ==
    [][(EventStep /\ last'.code = None)
         => (combined' = combined /\ ~last'.fetched /\ last'.writer = "none"
             /\ last'.update = "none" /\ CursorUnchanged)]_vars

C2_Witness ==
    /\ last.op = "event" /\ last.code = None
    /\ \E s \in samples : s.ts > last.trig
    /\ "code" \notin last.failed

\* C3: the cursor never advances past a request that was left unhandled (no
\* code, or writer failure): while a request's latest processing left it
\* unhandled, the cursor is at most that request's timestamp.
C3_CursorNeverPassesUnhandled ==
    \A t \in TriggerTimes :
        (outcome[t] = "unhandled" /\ last_processed_time # None)
            => last_processed_time <= t

\* C4 as stated: with a matched code and zero equipment rows, no combined
\* record is written and the cursor is advanced to the request's timestamp.
C4_NoSamplesAlwaysAdvances ==
    [][(EventStep /\ last'.code # None /\ last'.fetched /\ last'.records = <<>>)
         => (combined' = combined /\ last_processed_time' = last'.trig)]_vars

\* C4 as amended: with a matched code and zero equipment rows, no combined
\* record is written and update_last_processed_time is called with the
\* request's timestamp: when its persist succeeds the in-memory cursor becomes
\* that timestamp and the persisted cursor that timestamp in whole seconds;
\* when its persist fails both cursors keep their values.
C4_NoSamplesCallsUpdate ==
    [][(EventStep /\ last'.code # None /\ last'.fetched /\ last'.records = <<>>)
         => /\ combined' = combined
            /\ last'.writer = "none"
            /\ last'.update # "none"
            /\ last'.update = "ok" =>
                  /\ last_processed_time' = last'.trig
                  /\ persisted' = Strftime(last'.trig)
            /\ last'.update = "failed" => CursorUnchanged]_vars

C4_Witness ==
    /\ last.op = "event" /\ last.code # None /\ last.fetched /\ last.records = <<>>
    /\ last.update = "ok" /\ last_processed_time = last.trig

\* C5: the persisted cursor is monotonically non-decreasing: no cursor update
\* made while processing a request lowers it.
C5_PersistedCursorMonotone ==
    [][(EventStep /\ persisted # None) => persisted' >= persisted]_vars

\* C6: the in-memory cursor is never ahead of the persisted cursor.
C6_MemoryNeverAheadOfDurable ==
    last_processed_time # None
        => (persisted # None /\ last_processed_time <= persisted)

\* C7: tb_combined_data holds at most one row for each key
\* (code timestamp, equipment timestamp, trigger timestamp).
C7_OneRowPerKey ==
    \A r1 \in BagToSet(combined) :
        /\ CopiesIn(r1, combined) = 1
        /\ \A r2 \in BagToSet(combined) : Key(r1) = Key(r2) => r1 = r2

C7_Witness ==
    last.op = "event" /\ last.writer = "ok" /\ last.ignored > 0

\* C8: the Combined Record Writer is idempotent: right after it has written a
\* batch, writing the identical batch again reports success and leaves
\* tb_combined_data with the same rows and the same row count.
C8_WriterIdempotent ==
    (last.op = "event" /\ last.writer = "ok")
        => LET again == SaveCombinedDataCenteredConveyor(
                            combined, last.trig, last.code, last.records, FALSE)
           IN /\ again.success
              /\ again.store = combined
              /\ BagCardinality(again.store) = BagCardinality(combined)

\* the driver itself wrote an identical batch a second time: every row was
\* already stored
C8_Witness ==
    /\ last.op = "event" /\ last.writer = "ok" /\ last.records # <<>>
    /\ last.ignored = Len(last.records)

C10_FailedOperationKeepsCursor ==
    [][(EventStep /\ last'.failed \cap {"code", "equipment", "insert"} # {})
         => CursorUnchanged]_vars

\* C11: a failure raised while processing request i of a poll cycle is
\* contained at the per-request boundary: the cursor is not advanced for
\* request i and the driver goes on with request i+1 of the same batch.
C11_RaisedFailureContained ==
    [][(EventStep /\ last'.raised)
         => /\ CursorUnchanged
            /\ idx < Len(batch) => (pc' = "cycle" /\ idx' = idx + 1 /\ batch' = batch)]_vars

\* the phase name of the highest set bit of n among positions 1..6, no_status
\* when none is set
HighestPhase(n) ==
    IF n = 0 THEN "no_status"
    ELSE STATUS_BITS[CHOOSE b \in 1..6 : 2 ^ (b - 1) <= n /\ n < 2 ^ b]

\* C12: for every n in 0..63 the current status stored with a record of
\* status n is the phase name of the highest set bit among positions 1..6, and
\* no_status when n = 0; above 63 only the low six bits count, so a record of
\* status 64 is stored with no_status.
C12_DecodeCurrentHighestBit ==
    \A r \in BagToSet(combined) :
        /\ r.status \in 0..63 => r.process_status = HighestPhase(r.status)
        /\ r.status > 63 => r.process_status = HighestPhase(r.status % 64)
        /\ r.status = 64 => r.process_status = "no_status"

C12_Witness ==
    /\ \E r \in BagToSet(combined) : r.status = 64 /\ r.process_status = "no_status"
    /\ \E r \in BagToSet(combined) : r.status = 3 /\ r.process_status = "start_phase_2"

\* the phase names of the set bits of n among positions 1..6, ascending, one
\* space between two names; no_states when none is set
PhaseHistory(n) ==
    LET bits == SortAsc({b \in 1..6 : (n \div 2 ^ (b - 1)) % 2 = 1})
    IN IF bits = <<>> THEN "no_states"
       ELSE Join([i \in 1..Len(bits) |-> STATUS_BITS[bits[i]]])

\* C13: for every n in 0..63 the status history stored with a record of
\* status n lists the phase names of all set bits among positions 1..6 in
\* ascending bit order, and is no_states when none is set (64 included);
\* decoding the same n again gives the same output, and two distinct n in
\* 0..63 never give the same output.
C13_DecodeHistoryAscendingInjective ==
    \A r \in BagToSet(combined) :
        /\ r.status \in 0..63 => r.process_complete_status = PhaseHistory(r.status)
        /\ r.status = 64 => r.process_complete_status = "no_states"
        /\ decode_status_complete(r.status) = r.process_complete_status
        /\ \A n \in 0..63 :
              (r.status \in 0..63 /\ n # r.status)
                 => decode_status_complete(n) # r.process_complete_status

C13_Witness ==
    /\ \E r \in BagToSet(combined) :
          r.status = 63 /\ r.process_complete_status =
             "start_phase_1 start_phase_2 start_phase_3 start_phase_4 start_phase_5 start_phase_6"
    /\ \E r \in BagToSet(combined) :
          r.status = 3 /\ r.process_complete_status = "start_phase_1 start_phase_2"

\* C14: whenever the equipment query of a request succeeds, the rows the
\* Equipment Sample Fetcher returns for the window (start, end] are exactly the
\* samples with start < timestamp <= end, in ascending timestamp order: none
\* has a timestamp <= start or > end.
C14_FetcherReturnsWindow ==
    [][(EventStep /\ last'.fetched /\ "equipment" \notin last'.failed)
         => LET rows == last'.records
            IN /\ Range(rows) = {s \in samples : s.ts > last'.trig /\ s.ts <= last'.fetch_end}
               /\ Len(rows) = Cardinality(Range(rows))
               /\ \A i, j \in 1..Len(rows) : i < j => rows[i].ts <= rows[j].ts
               /\ \A i \in 1..Len(rows) :
                     ~(rows[i].ts <= last'.trig) /\ ~(rows[i].ts > last'.fetch_end)]_vars

\* a sample on the start of the window was left out, and the sample on the
\* end of the preceding request's window was returned and stored
C14_Witness ==
    /\ last.op = "event" /\ last.fetched /\ "equipment" \notin last.failed
    /\ \E s \in samples : s.ts = last.trig /\ s \notin Range(last.records)
    /\ \E r \in BagToSet(combined) : r.eq = last.trig /\ r.trig < last.trig

\* C18: the requests of a poll cycle are processed one at a time in strictly
\* ascending timestamp order: each step processes the request at the current
\* index as a whole, the next request starts only after it, and it has a
\* larger timestamp than every request processed before it in the cycle.
C18_AscendingSequential ==
    [][EventStep
         => /\ last'.trig = batch[idx]
            /\ \A i \in 1..Len(batch) : i < idx => batch[i] < batch[idx]
            /\ idx > 1 => (last.op = "event" /\ last.trig = batch[idx - 1])
            /\ pc' = "cycle" => (batch' = batch /\ idx' = idx + 1)]_vars

C18_Witness ==
    /\ pc = "cycle" /\ idx = 2 /\ Len(batch) = 2
    /\ last.op = "event" /\ last.trig = batch[1] /\ batch[1] < batch[2]

\* C19: when the cursor is set and the request query succeeds, the requests a
\* poll cycle selects are exactly those with timestamp >= cursor: a request
\* fetched through the 5-minute overlap with a timestamp before the cursor is
\* dropped, the request at the cursor is kept.
C19_SelectsAtOrAfterCursor ==
    [][(QueryStep /\ last'.failed = {} /\ last_processed_time # None)
         => /\ Range(batch') = {t \in triggers : t >= last_processed_time}
            /\ Len(batch') = Cardinality(Range(batch'))]_vars

C19_Witness ==
    /\ pc = "cycle" /\ last.op = "poll" /\ last.failed = {}
    /\ last_processed_time \in Range(batch)
    /\ \E t \in triggers : /\ t < last_processed_time
                           /\ t > last_processed_time - Minutes(5)
                           /\ t \notin Range(batch)

\* C20: for the request at index i of a batch the code query and the
\* equipment query are given the same window end: the timestamp of request
\* i+1 when the batch has one, otherwise the timestamp of request i plus 10
\* minutes.
C20_SameWindowEnd ==
    [][(EventStep /\ ~last'.raised)
         => LET window_end == IF idx < Len(batch) THEN batch[idx + 1]
                              ELSE batch[idx] + Minutes(10)
            IN /\ last'.search_end = window_end
               /\ last'.fetched => last'.fetch_end = last'.search_end]_vars

C20_Witness ==
    /\ pc = "cycle" /\ idx = 2 /\ last.op = "event" /\ last.fetched
    /\ last.fetch_end = batch[2] /\ last.search_end = batch[2]

C16_StopOnlyAtCycleBoundary ==
    [][(pc' = "stopped" /\ pc # "stopped")
         => (pc # "cycle" /\ ~(\E i \in 1..Len(batch) : i >= idx))]_vars

C21_CodeMatcherEarliestInWindow ==
    [][(EventStep /\ ~last'.raised /\ "code" \notin last'.failed)
         => LET in_window == {c \in codes : last'.trig < c /\ c <= last'.search_end}
            IN /\ in_window = {} => last'.code = None
               /\ in_window # {} =>
                     (last'.code \in in_window /\ \A c \in in_window : last'.code <= c)
               /\ last'.code # last'.trig
               /\ (last'.search_end \in codes /\ Cardinality(in_window) = 1)
                     => last'.code = last'.search_end]_vars

\* a code on the trigger timestamp was passed over for a later one, and the
\* request before it had matched that code on the end of its window
C21_Witness ==
    /\ last.op = "event" /\ "code" \notin last.failed
    /\ last.trig \in codes /\ last.code # None /\ last.code > last.trig
    /\ \E r \in BagToSet(combined) : r.code = last.trig /\ r.trig < last.trig

\* C22: the Cycle Validator is an observability signal only: it returns true
\* or false (false when its query fails), it writes nothing, and after a false
\* result for the previous request the current request is processed as any
\* other: the equipment query follows a matched code, the writer a non-empty
\* batch, and the cursor update everything but a failed write.
C22_ValidatorOnlySignals ==
    [][(EventStep /\ ~last'.raised /\ last'.cycle # "none")
         => /\ last'.cycle \in {"complete", "incomplete"}
            /\ "verify" \in last'.failed => last'.cycle = "incomplete"
            /\ last'.writer # "ok" => combined' = combined
            /\ last'.cycle = "incomplete" =>
                  /\ last'.fetched <=> last'.code # None
                  /\ last'.writer # "none" <=> (last'.fetched /\ last'.records # <<>>)
                  /\ last'.update # "none" <=>
                        (last'.fetched /\ (last'.records = <<>> \/ last'.writer = "ok"))]_vars

C22_Witness ==
    /\ last.op = "event" /\ last.cycle = "incomplete" /\ "verify" \notin last.failed
    /\ last.writer = "ok" /\ last.ignored = 0 /\ last.update = "ok"
    /\ \E r \in BagToSet(combined) : r.trig < DatetimeColumn(last.trig)

\* C23: the Cycle Validator returns true for a previous request whose stored
\* records with an equipment timestamp up to the next request include one
\* decoded from the status 63, and false when the previous request has no
\* stored records.
C23_ValidatorTrueOnTerminal ==
    [][(EventStep /\ last'.cycle # "none" /\ "verify" \notin last'.failed)
         => LET stored == {r \in BagToSet(combined) :
                             /\ r.trig = DatetimeColumn(batch[idx - 1])
                             /\ r.eq <= batch[idx]}
            IN /\ (\E r \in stored : r.status = 63) => last'.cycle = "complete"
               /\ stored = {} => last'.cycle = "incomplete"]_vars

\* C24: between two consecutive poll cycles the driver suspends, by a sleep or
\* by blocking on the channel, also after a cycle that ended with an error: a
\* cycle never starts right after one that ended without suspending.
C24_SuspendsBetweenCycles ==
    [][QueryStep => waited # "skipped"]_vars

\* a step of initialize_from_existing_data
ReinitStep == pc = "init" /\ last'.op = "reinit"

\* C25: initialize_from_existing_data whose queries succeed sets the cursor,
\* in memory and (when the persist succeeds) in the table, to the maximum
\* timestamp_conveyor M of the combined store and returns M, also when the
\* held cursor was above M; when the trigger-derived query yields nothing and
\* the code-derived one yields a maximum, the cursor becomes that maximum;
\* with an empty store it returns nothing and changes neither cursor
C25_ReinitializeFromData ==
    [][ReinitStep
         => LET M == MaxOf({r.trig : r \in BagToSet(combined)})
                K == MaxOf({r.code : r \in BagToSet(combined)})
                failed == last'.failed
            IN /\ (M # None /\ failed \cap {"conveyor1", "conveyor2"} = {})
                    => /\ last'.trig = M
                       /\ last_processed_time' = M
                       /\ "persist" \notin failed => persisted' = M
               /\ ({"conveyor1", "conveyor2"} \subseteq failed /\ K # None /\ "code" \notin failed)
                    => /\ last'.trig = K
                       /\ last_processed_time' = K
                       /\ "persist" \notin failed => persisted' = K
               /\ (M = None /\ K = None)
                    => /\ last'.trig = None
                       /\ last_processed_time' = last_processed_time
                       /\ persisted' = persisted]_vars

\* the held cursor was above M and the call corrected it downward
C25_Witness ==
    /\ last.op = "reinit"
    /\ last.failed = {}
    /\ last.held # None
    /\ last.trig # None
    /\ last.held > last.trig
    /\ last_processed_time = last.trig
    /\ persisted = last.trig

\* C26: when a request has a matched code and its equipment query returned
\* k >= 1 records, the rows the Combined Record Writer builds are exactly k,
\* the i-th one carrying the timestamp and the raw status field of the i-th
\* record, the request timestamp, and the scanner_timestamp, product_code,
\* operator_id and work_order of the matched scan; a record whose status
\* decodes to invalid_value has its row like any other.
C26_BatchOneRowPerSample ==
    [][(EventStep /\ last'.code # None /\ last'.fetched /\ Len(last'.records) >= 1)
         => LET rows == last'.params
                records == last'.records
                scan == ScannerRow(last'.code)
            IN /\ Len(rows) = Len(records)
               /\ \A i \in 1..Len(records) :
                     /\ rows[i].eq = DatetimeColumn(records[i].ts)
                     /\ rows[i].status = records[i].status
                     /\ rows[i].trig = DatetimeColumn(last'.trig)
                     /\ rows[i].code = DatetimeColumn(scan[1])
                     /\ rows[i].product_code = scan[2]
                     /\ rows[i].operator_id = scan[3]
                     /\ rows[i].work_order = scan[4]
                     /\ decode_status_current(records[i].status) = "invalid_value"
                           => rows[i].process_status = "invalid_value"]_vars

\* three records were fetched, the last with a status that is no number, and
\* its row was built and stored with the sentinel
C26_Witness ==
    /\ last.op = "event" /\ last.code = HMS(9, 0, 5)
    /\ Len(last.records) = 3 /\ Len(last.params) = 3
    /\ last.records[3].status = NotANumber
    /\ last.params[3].process_status = "invalid_value"
    /\ last.params[3].process_complete_status = "invalid_value"
    /\ last.params[3].product_code = ScannerRow(HMS(9, 0, 5))[2]
    /\ last.writer = "ok"
    /\ \E r \in BagToSet(combined) : r.status = NotANumber

\* the process ends or starts again, and the Driver's set with it
ProcessEnds == pc' \in {"init", "stopped", "aborted"}

\* C27: within one run of the process, a request for which no code is found
\* gets its warning exactly when its timestamp (to the second) is not yet in
\* requests_without_code, and is in the set afterwards; a request for which a
\* code is found is not in the set afterwards; and nothing else changes the
\* membership of a timestamp.  So the warning is logged the first time only
\* while the request keeps having no code, and the timestamp is in the set
\* exactly when the last processing of the request found no code.
C27_NoCodeWarnedOnce ==
    [][/\ (EventStep /\ ~last'.raised /\ last'.code = None)
            => /\ last'.warned <=> Strftime(last'.trig) \notin requests_without_code
               /\ Strftime(last'.trig) \in requests_without_code'
       /\ (EventStep /\ ~last'.raised /\ last'.code # None)
            => /\ ~last'.warned
               /\ Strftime(last'.trig) \notin requests_without_code'
       /\ \A t \in triggers :
             ((Strftime(t) \in requests_without_code') # (Strftime(t) \in requests_without_code))
                => \/ EventStep /\ ~last'.raised /\ last'.trig = t
                   \/ ProcessEnds]_vars

\* a request found no code for the second time in a row and was not warned
\* about again
C27_Witness ==
    /\ last.op = "event" /\ ~last.raised /\ last.code = None /\ "code" \notin last.failed
    /\ ~last.warned
    /\ Strftime(last.trig) \in requests_without_code
    /\ pc = "idle"

\* a step of StateManager.__init__ in a process that starts
StartStep == last'.op = "start" /\ last' # last

\* a step of initialize_system_state
InitStep == pc = "init" /\ pc' = "idle"

\* C28: at startup the cursor held in memory is what the one read of
\* StateManager.__init__ returned, nothing reads it again before
\* initialize_system_state, and initialize_system_state initializes from
\* existing data if and only if no cursor is held; a cursor that is held is
\* kept as read, in memory and in the table, also when it is above every
\* timestamp of the combined store.
C28_StartupReadsOnce ==
    [][/\ (StartStep /\ ~last'.raised /\ "state" \notin last'.failed)
            => last_processed_time' = (IF persisted = EmptyText THEN None ELSE persisted)
       /\ (pc = "init" /\ last_processed_time' # last_processed_time)
            => (InitStep /\ last'.op = "reinit") \/ ProcessEnds
       /\ InitStep
            => /\ last'.op = "reinit" <=> last_processed_time = None
               /\ last_processed_time # None
                    => /\ last'.op = "keep"
                       /\ last_processed_time' = last_processed_time
                       /\ persisted' = persisted]_vars

\* a process started with a stored cursor above every conveyor timestamp of
\* the combined store and kept it
C28_Witness ==
    /\ last.op = "keep"
    /\ pc = "idle"
    /\ last_processed_time # None
    /\ last_processed_time = persisted
    /\ combined # EmptyBag
    /\ \A r \in BagToSet(combined) : r.trig < last_processed_time

\* C29: each equipment record is joined to at most one conveyor request: the
\* combined store never holds two rows with the same equipment timestamp and
\* different conveyor timestamps.
C29_SampleJoinedToOneTrigger ==
    \A r1, r2 \in BagToSet(combined) : r1.eq = r2.eq => r1.trig = r2.trig

\* the window (t, next request] of request t, open-ended for the last request
InOwnWindow(t, s) ==
    /\ s.ts > t
    /\ \A u \in LateTriggers : u > t => s.ts <= u

\* C30: no equipment record is lost to late arrival: for every request with
\* a matched code, every equipment record whose timestamp lies in the
\* request's window (request, next request] eventually has a combined row
\* under that request, whenever it arrives, as long as polls keep running and
\* writes succeed.
C30_LateSamplesEventuallyStored ==
    \A t \in LateTriggers : \A s \in LateSampleRows :
        InOwnWindow(t, s)
          => ((s \in samples)
                ~> (\E r \in BagToSet(combined) :
                       r.eq = DatetimeColumn(s.ts) /\ r.trig = DatetimeColumn(t)))

\* the part that holds: a record in the window of the latest request, which
\* every poll selects again, is stored whenever it arrives
LateSamplesOfLatestRequestStored ==
    \A s \in LateSampleRows :
        InOwnWindow(HMS(9, 5, 0), s)
          => ((s \in samples)
                ~> (\E r \in BagToSet(combined) :
                       r.eq = DatetimeColumn(s.ts) /\ r.trig = HMS(9, 5, 0)))

====
